---------------------------- MODULE Spec2Model ----------------------------
(***************************************************************************)
(* AI daily news: the collection pipeline of src/src/collector.py          *)
(* (NewsCollector, BackupNewsGenerator, collect_news) and the impact       *)
(* scorer of src/src/processor.py (ImpactScorer, NewsProcessor).           *)
(*                                                                         *)
(* Text is a sequence of Unicode code points, so that str.lower(), the     *)
(* substring test `kw in text` and the regular expression of _deduplicate  *)
(* are computed on characters.  Scores are kept in tenths (96.0 is 960),   *)
(* which is exact for the one-decimal multipliers of the weight tables.    *)
(***************************************************************************)
EXTENDS Integers, Sequences, FiniteSets, TLC

\* ------------------------------------------------------------------ bounds
\* longest candidate list given to _deduplicate in SpecDedup
MaxListLen == 3

VARIABLES
    pc,        \* position of the run (run_daily_news / collect_news / collect_all)
    target,    \* source -> the "target" key collect_all writes into the descriptor
    net,       \* source -> what the network answers when the source is fetched
    task,      \* source -> state of its task in the ThreadPoolExecutor
    future,    \* source -> what its future holds once the task is done
    results,   \* collect_all's local `results`: group -> list of items
    stats,     \* NewsCollector.stats
    scored,    \* process_news: group -> list returned by rank_news
    main,      \* run_daily_news: the configuration read, processed_data, progress
    arg,       \* argument of the function under test (SpecDedup, SpecScore)
    ret,       \* its result
    ret2,      \* result of the second application (SpecDedup)
    called     \* which function has been applied

pipeVars == <<pc, target, net, task, future, results, stats, scored, main>>
fnVars == <<arg, ret, ret2, called>>
vars ==
    <<pc, target, net, task, future, results, stats, scored, main, arg, ret, ret2, called>>

\* -------------------------------------------------------------------- text
\* str.lower() on one character (ASCII letters; CJK has no case)
Lower(c) == IF c >= 65 /\ c <= 90 THEN c + 32 ELSE c

LowerText(t) == [i \in 1..Len(t) |-> Lower(t[i])]

\* Python's `sub in text` for strings
Contains(sub, text) ==
    \E i \in 0..(Len(text) - Len(sub)) :
        \A j \in 1..Len(sub) : text[i + j] = sub[j]

\* s.startswith(p) is not needed; f"{a} {b}" is:
SpaceJoin(a, b) == a \o <<32>> \o b

\* the characters the pattern [^\w\u4e00-\u9fff] does NOT remove: \w (letters,
\* digits, underscore; CJK ideographs are \w as well) and U+4E00..U+9FFF
IsKeptChar(c) ==
    \/ c >= 97 /\ c <= 122
    \/ c >= 65 /\ c <= 90
    \/ c >= 48 /\ c <= 57
    \/ c = 95
    \/ c >= 19968 /\ c <= 40959

\* ---------------------------------------------------------- text constants
\* "OpenAI Releases GPT-5!"
T_GPT5_A == <<79, 112, 101, 110, 65, 73, 32, 82, 101, 108, 101, 97, 115, 101, 115, 32, 71, 80, 84, 45, 53, 33>>
\* "openai releases gpt 5"
T_GPT5_B == <<111, 112, 101, 110, 97, 105, 32, 114, 101, 108, 101, 97, 115, 101, 115, 32, 103, 112, 116, 32, 53>>
\* "!!! ???"
T_Punct == <<33, 33, 33, 32, 63, 63, 63>>
\* "Open_AI releases GPT-5"
T_Under == <<79, 112, 101, 110, 95, 65, 73, 32, 114, 101, 108, 101, 97, 115, 101, 115, 32, 71, 80, 84, 45, 53>>
\* "\u7a81\u53d1\uff1aOpenAI\u53d1\u5e03GPT-5"  (breaking: OpenAI releases GPT-5)
T_Zh == <<31361, 21457, 65306, 79, 112, 101, 110, 65, 73, 21457, 24067, 71, 80, 84, 45, 53>>

\* a news item; a key the dict lacks reads as "" through news.get(key, "")
NoDate == <<>>
Item(title, summary, url, source, pub_date) ==
    [title |-> title, summary |-> summary, url |-> url, source |-> source,
     pub_date |-> pub_date]

\* ------------------------------------------------------------ _deduplicate
\* simple_title = re.sub(r'[^\w\u4e00-\u9fff]', '', news['title'].lower())
simple_title(news) == SelectSeq(LowerText(news.title), IsKeptChar)

\* one iteration of the for loop; st = [seen_titles, seen_urls, unique_news]
DedupStepPrevOnly(st, news) ==
    LET t == simple_title(news)
        url == news.url
        keep == t # <<>> /\ t \notin st.seen_titles
                /\ (url = "" \/ url \notin st.seen_urls)
    IN  [seen_titles |-> {t},
         seen_urls |-> IF url # "" THEN {url} ELSE {},
         unique_news |-> IF keep THEN Append(st.unique_news, news)
                         ELSE st.unique_news]

DedupStepSeenAll(st, news) ==
    LET t == simple_title(news)
        url == news.url
        keep == t # <<>> /\ t \notin st.seen_titles
                /\ (url = "" \/ url \notin st.seen_urls)
    IN  [seen_titles |-> st.seen_titles \cup {t},
         seen_urls |-> IF url # "" THEN st.seen_urls \cup {url} ELSE st.seen_urls,
         unique_news |-> IF keep THEN Append(st.unique_news, news)
                         ELSE st.unique_news]

DedupStepTitleOnly(st, news) ==
    LET t == simple_title(news)
        url == news.url
    IN  IF t # <<>> /\ t \notin st.seen_titles
        THEN [seen_titles |-> st.seen_titles \cup {t},
              seen_urls |-> IF url # "" THEN st.seen_urls \cup {url}
                            ELSE st.seen_urls,
              unique_news |-> Append(st.unique_news, news)]
        ELSE st

DedupStep(st, news) ==
    LET t == simple_title(news)
        url == news.url
    IN  IF t # <<>> /\ t \notin st.seen_titles
        THEN IF url = "" \/ url \notin st.seen_urls
             THEN [seen_titles |-> st.seen_titles \cup {t},
                   seen_urls |-> IF url # "" THEN st.seen_urls \cup {url}
                                 ELSE st.seen_urls,
                   unique_news |-> Append(st.unique_news, news)]
             ELSE st
        ELSE st

RECURSIVE DedupLoop(_, _, _)
DedupLoop(news_list, i, st) ==
    IF i > Len(news_list) THEN st
    ELSE DedupLoop(news_list, i + 1, DedupStep(st, news_list[i]))

_deduplicate(news_list) ==
    DedupLoop(news_list, 1,
              [seen_titles |-> {}, seen_urls |-> {}, unique_news |-> <<>>]).unique_news

\* ------------------------------------------------- weight tables (config)
\* keyword lists of IMPACT_KEYWORDS and the words of important_title_words
\* "executive order"
KW_executive_order == <<101, 120, 101, 99, 117, 116, 105, 118, 101, 32, 111, 114, 100, 101, 114>>
\* "sanction"
KW_sanction == <<115, 97, 110, 99, 116, 105, 111, 110>>
\* "export"
KW_export == <<101, 120, 112, 111, 114, 116>>
\* (export control) "\u51fa\u53e3\u7ba1\u5236"
KW_export_control_zh == <<20986, 21475, 31649, 21046>>
\* "breaking"
TW_breaking == <<98, 114, 101, 97, 107, 105, 110, 103>>
\* "exclusive"
TW_exclusive == <<101, 120, 99, 108, 117, 115, 105, 118, 101>>
\* "official"
TW_official == <<111, 102, 102, 105, 99, 105, 97, 108>>
\* "confirmed"
TW_confirmed == <<99, 111, 110, 102, 105, 114, 109, 101, 100>>
\* (breaking) "\u7a81\u53d1"
TW_tufa == <<31361, 21457>>
\* (exclusive) "\u72ec\u5bb6"
TW_dujia == <<29420, 23478>>
\* (officially announced) "\u5b98\u5ba3"
TW_guanxuan == <<23448, 23459>>
\* (blockbuster) "\u91cd\u78c5"
TW_zhongbang == <<37325, 30917>>
\* (first release) "\u9996\u53d1"
TW_shoufa == <<39318, 21457>>
\* "US issues new executive order restricting AI chip exports"
S_Example == <<85, 83, 32, 105, 115, 115, 117, 101, 115, 32, 110, 101, 119, 32, 101, 120, 101, 99, 117, 116, 105, 118, 101, 32, 111, 114, 100, 101, 114, 32, 114, 101, 115, 116, 114, 105, 99, 116, 105, 110, 103, 32, 65, 73, 32, 99, 104, 105, 112, 32, 101, 120, 112, 111, 114, 116, 115>>
\* "Sanction and Executive Order"
S_Double == <<83, 97, 110, 99, 116, 105, 111, 110, 32, 97, 110, 100, 32, 69, 120, 101, 99, 117, 116, 105, 118, 101, 32, 79, 114, 100, 101, 114>>
\* "BREAKING: Exclusive chips"
S_Signal == <<66, 82, 69, 65, 75, 73, 78, 71, 58, 32, 69, 120, 99, 108, 117, 115, 105, 118, 101, 32, 99, 104, 105, 112, 115>>
\* "New executive order"
S_Plain == <<78, 101, 119, 32, 101, 120, 101, 99, 117, 116, 105, 118, 101, 32, 111, 114, 100, 101, 114>>
\* "Chip news"
S_None == <<67, 104, 105, 112, 32, 110, 101, 119, 115>>
\* (breaking, exclusive, officially announced, blockbuster) "\u7a81\u53d1 \u72ec\u5bb6 \u5b98\u5ba3 \u91cd\u78c5"
S_SignalZh == <<31361, 21457, 32, 29420, 23478, 32, 23448, 23459, 32, 37325, 30917>>
\* "official export licence"
Sum_Export == <<111, 102, 102, 105, 99, 105, 97, 108, 32, 101, 120, 112, 111, 114, 116, 32, 108, 105, 99, 101, 110, 99, 101>>

\* config.IMPACT_KEYWORDS in dict order: category -> weight, keywords.  The
\* weights 80 and 60 and the keywords "executive order" and "export" are those
\* of the scoring scenario; each category has a second keyword.
IMPACT_KEYWORDS ==
    <<[name |-> "policy", weight |-> 80,
       keywords |-> <<KW_executive_order, KW_sanction>>],
      [name |-> "export_control", weight |-> 60,
       keywords |-> <<KW_export, KW_export_control_zh>>]>>

\* config.SOURCE_WEIGHTS in dict order: tier -> multiplier (in tenths), sources.
\* "Reuters Technology" is listed in two tiers.
SOURCE_WEIGHTS ==
    <<[name |-> "tier1", multiplier |-> 12, sources |-> {"Reuters Technology"}],
      [name |-> "tier2", multiplier |-> 11,
       sources |-> {"Reuters Technology", "OpenAI Blog"}]>>

\* the importance levels "\u9ad8", "\u4e2d", "\u4f4e" (high, medium, low)
High == "High"
Medium == "Medium"
Low == "Low"

\* --------------------------------------------------------- calculate_score
important_title_words ==
    <<TW_breaking, TW_exclusive, TW_official, TW_confirmed,
      TW_tufa, TW_dujia, TW_guanxuan, TW_zhongbang, TW_shoufa>>

\* the body of `for keyword in keywords`; st = [category_scores, matched_tags]
KeywordStepOnce(st, category, weight, keyword, content) ==
    IF Contains(LowerText(keyword), content)
    THEN [category_scores |-> (category :> weight) @@ st.category_scores,
          matched_tags |-> Append(st.matched_tags, keyword)]
    ELSE st

KeywordStep(st, category, weight, keyword, content) ==
    IF Contains(LowerText(keyword), content)
    THEN LET cur == IF category \in DOMAIN st.category_scores
                    THEN st.category_scores[category] ELSE 0
         IN  [category_scores |-> (category :> (cur + weight)) @@ st.category_scores,
              matched_tags |-> Append(st.matched_tags, keyword)]
    ELSE st

RECURSIVE KeywordLoop(_, _, _, _, _)
KeywordLoop(st, config, category, i, content) ==
    IF i > Len(config.keywords) THEN st
    ELSE KeywordLoop(KeywordStep(st, category, config.weight, config.keywords[i], content),
                     config, category, i + 1, content)

\* for category, config in self.impact_keywords.items()
RECURSIVE CategoryLoop(_, _, _)
CategoryLoop(st, c, content) ==
    IF c > Len(IMPACT_KEYWORDS) THEN st
    ELSE CategoryLoop(KeywordLoop(st, IMPACT_KEYWORDS[c], IMPACT_KEYWORDS[c].name, 1, content),
                      c + 1, content)

MaxOf(S) == CHOOSE x \in S : \A y \in S : y <= x

\* if category_scores: base_score = max(category_scores.values())
BaseScore(category_scores) ==
    IF DOMAIN category_scores # {}
    THEN MaxOf({category_scores[c] : c \in DOMAIN category_scores})
    ELSE 0

SourceMultiplierLast(source) ==
    LET hits == {t \in 1..Len(SOURCE_WEIGHTS) : source \in SOURCE_WEIGHTS[t].sources}
    IN  IF hits = {} THEN 10
        ELSE SOURCE_WEIGHTS[CHOOSE t \in hits : \A u \in hits : u <= t].multiplier

\* the tier loop with its break: the first tier listing the source, else 1.0
RECURSIVE TierLoop(_, _)
TierLoop(source, t) ==
    IF t > Len(SOURCE_WEIGHTS) THEN 10
    ELSE IF source \in SOURCE_WEIGHTS[t].sources THEN SOURCE_WEIGHTS[t].multiplier
    ELSE TierLoop(source, t + 1)

SourceMultiplier(source) == TierLoop(source, 1)

\* for word in important_title_words: if word.lower() in title: final_score += 20
RECURSIVE TitleBonusFirstOnly(_, _, _)
TitleBonusFirstOnly(final_score, title, w) ==
    IF w > Len(important_title_words) THEN final_score
    ELSE IF Contains(LowerText(important_title_words[w]), title) THEN final_score + 200
    ELSE TitleBonusFirstOnly(final_score, title, w + 1)

RECURSIVE TitleBonusLoop(_, _, _)
TitleBonusLoop(final_score, title, w) ==
    IF w > Len(important_title_words) THEN final_score
    ELSE TitleBonusLoop(IF Contains(LowerText(important_title_words[w]), title)
                        THEN final_score + 200 ELSE final_score,
                        title, w + 1)

\* if len(category_scores) >= 2: final_score += 15 * (len(category_scores) - 1)
MultiCategoryBonusPerCategory(final_score, category_scores) ==
    LET n == Cardinality(DOMAIN category_scores)
    IN  IF n >= 2 THEN final_score + 150 * n ELSE final_score

MultiCategoryBonus(final_score, category_scores) ==
    LET n == Cardinality(DOMAIN category_scores)
    IN  IF n >= 2 THEN final_score + 150 * (n - 1) ELSE final_score

_determine_importance_strict(score) ==
    IF score > 800 THEN High
    ELSE IF score > 400 THEN Medium
    ELSE Low

\* score in tenths: 80 is 800, 40 is 400
_determine_importance(score) ==
    IF score >= 800 THEN High
    ELSE IF score >= 400 THEN Medium
    ELSE Low

SetOf(seq) == {seq[i] : i \in DOMAIN seq}

\* list(set(matched_tags))[:5]: five of the distinct tags (any five)
CapTags(tags) ==
    IF Cardinality(tags) <= 5 THEN tags
    ELSE CHOOSE T \in SUBSET tags : Cardinality(T) = 5

\* returns (final_score, importance, matched_tags); the locals base_score,
\* category_scores and source_multiplier are kept beside them
calculate_score(news) ==
    LET title == LowerText(news.title)
        summary == LowerText(news.summary)
        content == SpaceJoin(title, summary)
        st == CategoryLoop([category_scores |-> <<>>, matched_tags |-> <<>>], 1, content)
        base_score == BaseScore(st.category_scores)
        source_multiplier == SourceMultiplier(news.source)
        final0 == base_score * source_multiplier
        final1 == TitleBonusLoop(final0, title, 1)
        final_score == MultiCategoryBonus(final1, st.category_scores)
    IN  [final_score |-> final_score,
         importance |-> _determine_importance(final_score),
         matched_tags |-> CapTags(SetOf(st.matched_tags)),
         base_score |-> base_score,
         category_scores |-> st.category_scores,
         source_multiplier |-> source_multiplier]

\* --------------------------------------------------------------- rank_news
\* news_copy with the three keys rank_news adds
Scored(news) ==
    LET r == calculate_score(news)
    IN  [title |-> news.title, summary |-> news.summary, url |-> news.url,
         source |-> news.source, pub_date |-> news.pub_date,
         impact_score |-> r.final_score, importance |-> r.importance,
         auto_tags |-> r.matched_tags]

\* list.sort(key=..., reverse=True) and sorted(..., reverse=True) are stable:
\* position i goes behind every position whose key is not smaller.  keys[i] is
\* the key of L[i]; the result lists positions of L.
RECURSIVE InsertDescBeforeEqual(_, _, _)
InsertDescBeforeEqual(sorted, i, keys) ==
    IF sorted = <<>> THEN <<i>>
    ELSE IF keys[Head(sorted)] > keys[i]
         THEN <<Head(sorted)>> \o InsertDescBeforeEqual(Tail(sorted), i, keys)
         ELSE <<i>> \o sorted

RECURSIVE InsertDesc(_, _, _)
InsertDesc(sorted, i, keys) ==
    IF sorted = <<>> THEN <<i>>
    ELSE IF keys[Head(sorted)] >= keys[i]
         THEN <<Head(sorted)>> \o InsertDesc(Tail(sorted), i, keys)
         ELSE <<i>> \o sorted

RECURSIVE SortDescFrom(_, _, _)
SortDescFrom(keys, i, acc) ==
    IF i > Len(keys) THEN acc
    ELSE SortDescFrom(keys, i + 1, InsertDesc(acc, i, keys))

StableSortDesc(L, keys) ==
    LET order == SortDescFrom(keys, 1, <<>>)
    IN  [k \in 1..Len(L) |-> L[order[k]]]

rank_news_shared_totals(news_list) ==
    LET carry(i) == IF i > 1 THEN calculate_score(news_list[i - 1]).base_score ELSE 0
        scored_news == [i \in 1..Len(news_list) |->
                           [Scored(news_list[i]) EXCEPT !.impact_score = @ + carry(i)]]
    IN  StableSortDesc(scored_news,
                       [i \in 1..Len(scored_news) |-> scored_news[i].impact_score])

\* for news in news_list: score a copy; then scored_news.sort(...)
rank_news(news_list) ==
    LET scored_news == [i \in 1..Len(news_list) |-> Scored(news_list[i])]
    IN  StableSortDesc(scored_news,
                       [i \in 1..Len(scored_news) |-> scored_news[i].impact_score])

\* ---------------------------------------------------- _clean_text, summary
\* the characters \s matches
IsSpace(c) ==
    \/ c >= 9 /\ c <= 13
    \/ c >= 28 /\ c <= 32
    \/ c \in {133, 160, 12288}

\* re.sub(r'\s+', ' ', text)
CollapseSpace(text) ==
    LET F[i \in 0..Len(text)] ==
            IF i = 0 THEN <<>>
            ELSE IF ~IsSpace(text[i]) THEN Append(F[i - 1], text[i])
            ELSE IF i > 1 /\ IsSpace(text[i - 1]) THEN F[i - 1]
            ELSE Append(F[i - 1], 32)
    IN  F[Len(text)]

\* str.strip() of a text whose whitespace runs are single spaces
Strip(text) ==
    LET a == IF text # <<>> /\ text[1] = 32 THEN 2 ELSE 1
        b == IF text # <<>> /\ text[Len(text)] = 32 THEN Len(text) - 1 ELSE Len(text)
    IN  SubSeq(text, a, b)

\* re.sub(r'[\x00-\x1f\x7f-\x9f]', '', text), then the whitespace clean-up
_clean_text(text) ==
    IF text = <<>> THEN <<>>
    ELSE Strip(CollapseSpace(SelectSeq(text, LAMBDA c : ~(c <= 31 \/ (c >= 127 /\ c <= 159)))))

\* _clean_html on a text without markup (the feeds of the model carry none):
\* get_text() returns the text, then the whitespace clean-up
_clean_html(text) ==
    IF text = <<>> THEN <<>> ELSE Strip(CollapseSpace(text))

Take(seq, n) == SubSeq(seq, 1, IF Len(seq) < n THEN Len(seq) ELSE n)

\* -------------------------------------------------------------------- time
\* datetime values are whole hours; strftime("%Y-%m-%d") and pub_date[:10] give
\* the day.  Now is datetime.now() of the run: day 10, 12:00.
Now == 252
DateOf(t) == t \div 24

\* ----------------------------------------------------------------- sources
\* number of configured sources
NumSources == 3
\* self.max_workers: 10 in the code, 2 here so that NumSources exceeds it
max_workers == 2

\* config.NEWS_SOURCES: the first NumSources rows; `list` is the key of
\* NEWS_SOURCES the descriptor is listed under
SourceTable ==
    <<[name |-> "Reuters Technology", type |-> "rss", list |-> "international"],
      [name |-> "OpenAI Blog", type |-> "rss", list |-> "international"],
      [name |-> "36Kr", type |-> "rss", list |-> "domestic"],
      [name |-> "TechCrunch", type |-> "web", list |-> "international"],
      [name |-> "NewsAPI", type |-> "api", list |-> "domestic"]>>

Sources == 1..NumSources

NEWS_SOURCES(list) ==
    SelectSeq([s \in 1..NumSources |-> s], LAMBDA s : SourceTable[s].list = list)

\* all_sources after the two loops of collect_all: domestic, then international
all_sources == NEWS_SOURCES("domestic") \o NEWS_SOURCES("international")

\* ------------------------------------------------------------ feed entries
\* "Export ban!"
E_ExportBan == <<69, 120, 112, 111, 114, 116, 32, 98, 97, 110, 33>>
\* "export  ban" (two spaces: _clean_text collapses them)
E_ExportBanLower == <<101, 120, 112, 111, 114, 116, 32, 32, 98, 97, 110>>
\* "AI"
E_AI == <<65, 73>>

\* a feedparser entry: published is <<>> when the entry has no parsed time
Entry(title, summary, link, published) ==
    [title |-> title, summary |-> summary, link |-> link, published |-> published]

\* today 10:00
Ent1 == Entry(E_ExportBan, <<>>, "u1", <<250>>)
\* today 10:00, the title of Ent1 up to case, spacing and punctuation
Ent2 == Entry(E_ExportBanLower, <<>>, "u2", <<250>>)
\* yesterday 14:00, the link of Ent1
Ent3 == Entry(S_Double, Sum_Export, "u1", <<230>>)
\* today 11:00, no keyword
Ent4 == Entry(S_None, <<>>, "u3", <<251>>)
\* three days before the run date (day 7, 22:00), 62 hours old
Ent5 == Entry(S_Plain, <<>>, "u4", <<190>>)
\* 102 hours old
Ent6 == Entry(S_Example, <<>>, "u5", <<150>>)
\* a title of two characters
Ent7 == Entry(E_AI, Sum_Export, "u6", <<251>>)
\* no parsed time, no link
Ent8 == Entry(S_Example, <<>>, "", <<>>)
\* tomorrow 08:00
Ent9 == Entry(S_Plain, Sum_Export, "u7", <<272>>)

FeedA == <<Ent1, Ent4>>
FeedB == <<Ent2, Ent3>>
FeedC == <<Ent5, Ent6, Ent7, Ent8, Ent9>>
Feeds == {FeedA, FeedB, FeedC}

\* what fetching an rss source can meet: requests.get timing out, another
\* RequestException (raise_for_status), a feed that does not parse
\* (feed.bozo, no entries), an exception that leaves _collect_from_source,
\* or a parsed feed
FailureKinds == {"timeout", "http_error", "bozo", "raise"}
Responses ==
    {[kind |-> k, entries |-> <<>>] : k \in FailureKinds}
        \cup {[kind |-> "feed", entries |-> f] : f \in Feeds}
NoResponse == [kind |-> "unused", entries |-> <<>>]

\* ------------------------------------------------------- _collect_from_rss
\* _parse_pub_date: the parsed time, or datetime.now()
_parse_pub_date(entry) ==
    IF entry.published # <<>> THEN entry.published[1] ELSE Now

\* the body of `for entry in feed.entries[:30]`
RssStep(news_list, source, entry) ==
    LET pub_date == _parse_pub_date(entry)
        news_item == Item(_clean_text(entry.title),
                          Take(_clean_html(entry.summary), 800),
                          entry.link,
                          SourceTable[source].name,
                          <<pub_date>>)
    IN  IF Now - pub_date > 3 * 24 THEN news_list
        ELSE IF news_item.title # <<>> /\ Len(news_item.title) > 5
             THEN Append(news_list, news_item)
             ELSE news_list

RECURSIVE RssLoop(_, _, _, _)
RssLoop(news_list, source, entries, i) ==
    IF i > Len(entries) THEN news_list
    ELSE RssLoop(RssStep(news_list, source, entries[i]), source, entries, i + 1)

\* every exception raised inside is passed over and news_list returned
_collect_from_rss(source, response) ==
    IF response.kind \in {"timeout", "http_error"} THEN <<>>
    ELSE IF response.kind = "bozo" THEN <<>>
    ELSE RssLoop(<<>>, source, Take(response.entries, 30), 1)

\* returns [raised, value]: raised when an exception leaves the function
_collect_from_source(source, response) ==
    IF response.kind = "raise" THEN [raised |-> TRUE, value |-> <<>>]
    ELSE IF SourceTable[source].type = "rss"
         THEN [raised |-> FALSE, value |-> _collect_from_rss(source, response)]
         ELSE [raised |-> FALSE, value |-> <<>>]

_collect_from_source_unguarded(source, response) ==
    _collect_from_source(source, response)

\* try: ... return self._collect_from_source(source); except Exception: return []
_collect_from_source_safe(source, response) ==
    LET r == _collect_from_source(source, response)
    IN  IF r.raised THEN [raised |-> FALSE, value |-> <<>>] ELSE r

\* ------------------------------------------------------------- the filters
\* self.ai_keywords: the keywords of every category, in table order
RECURSIVE KeywordsFrom(_)
KeywordsFrom(c) ==
    IF c > Len(IMPACT_KEYWORDS) THEN <<>>
    ELSE IMPACT_KEYWORDS[c].keywords \o KeywordsFrom(c + 1)

ai_keywords == KeywordsFrom(1)

IsAINewsTitleOnly(news) ==
    \E k \in 1..Len(ai_keywords) :
        Contains(LowerText(ai_keywords[k]), LowerText(news.title))

\* text = f"{news['title']} {news['summary']}".lower(); any keyword.lower() in text
IsAINews(news) ==
    LET text == LowerText(SpaceJoin(news.title, news.summary))
    IN  \E k \in 1..Len(ai_keywords) : Contains(LowerText(ai_keywords[k]), text)

_filter_ai_news(news_list) == SelectSeq(news_list, IsAINews)

DateIsValidDropsUndated(news) ==
    news.pub_date # <<>> /\ DateOf(news.pub_date[1]) \in {DateOf(Now), DateOf(Now - 24)}

DateIsValidThreeDays(news) ==
    IF news.pub_date # <<>> THEN Now - news.pub_date[1] <= 3 * 24 ELSE TRUE

\* is_valid_date: the parsed pub_date is today's or yesterday's date; an item
\* whose pub_date does not parse is kept
DateIsValid(news) ==
    LET today == Now
        yesterday == today - 24
        valid_dates == {DateOf(today), DateOf(yesterday)}
    IN  IF news.pub_date # <<>> THEN DateOf(news.pub_date[1]) \in valid_dates
        ELSE TRUE

_filter_by_date(news_list) == SelectSeq(news_list, DateIsValid)

\* get_time: the parsed pub_date, datetime.min when it does not parse
get_time(news) == IF news.pub_date # <<>> THEN news.pub_date[1] ELSE -1

_sort_by_time(news_list) ==
    StableSortDesc(news_list, [i \in 1..Len(news_list) |-> get_time(news_list[i])])

\* ---------------------------------------------------- BackupNewsGenerator
\* month_day = f"{today.month}\u6708{today.day}\u65e5" on the run date (1/10)
month_day ==
    <<49, 26376, 49, 48, 26085>>
\* collector.py:352 title, collector.py:353 summary (after month_day)
Backup_Dom1_title ==
    <<24037, 20449, 37096, 21457, 24067, 20154, 24037, 26234, 33021, 20135,
      19994, 21457, 23637, 25351, 23548, 24847, 35265>>
Backup_Dom1_rest ==
    <<28040, 24687, 65292, 24037, 19994, 21644, 20449, 24687, 21270, 37096,
      21457, 24067, 12298, 20851, 20110, 20419, 36827, 20154, 24037, 26234,
      33021, 20135, 19994, 39640, 36136, 37327, 21457, 23637, 30340, 25351,
      23548, 24847, 35265, 12299, 65292, 25552, 20986, 21040, 50, 48, 50, 55,
      24180, 20154, 24037, 26234, 33021, 26680, 24515, 20135, 19994, 35268,
      27169, 36229, 36807, 19975, 20159, 20803, 30340, 30446, 26631, 12290>>
\* collector.py:359 title, collector.py:360 summary (after month_day)
Backup_Dom2_title ==
    <<20013, 22269, 31185, 23398, 38498, 21457, 24067, 22823, 27169, 22411,
      35780, 27979, 25253, 21578>>
Backup_Dom2_rest ==
    <<28040, 24687, 65292, 20013, 22269, 31185, 23398, 38498, 21457, 24067,
      22269, 20135, 22823, 27169, 22411, 33021, 21147, 35780, 27979, 25253,
      21578, 65292, 23545, 20027, 27969, 22823, 27169, 22411, 22312, 22810,
      20010, 32500, 24230, 36827, 34892, 20102, 20840, 38754, 35780, 20272,
      65292, 20026, 34892, 19994, 21457, 23637, 25552, 20379, 21442, 32771,
      12290>>
\* collector.py:369 title, collector.py:370 summary (after month_day)
Backup_Int1_title ==
    <<32654, 22269, 21830, 21153, 37096, 26356, 26032, 65, 73, 33455, 29255,
      20986, 21475, 31649, 21046, 35268, 21017>>
Backup_Int1_rest ==
    <<28040, 24687, 65292, 32654, 22269, 21830, 21153, 37096, 24037, 19994,
      19982, 23433, 20840, 23616, 40, 66, 73, 83, 41, 21457, 24067, 26356,
      26032, 30340, 21322, 23548, 20307, 20986, 21475, 31649, 21046, 35268,
      21017, 65292, 36827, 19968, 27493, 25910, 32039, 23545, 20808, 36827,
      65, 73, 33455, 29255, 30340, 20986, 21475, 38480, 21046, 12290>>
\* collector.py:376 title, collector.py:377 summary (after month_day)
Backup_Int2_title ==
    <<27431, 30431, 65, 73, 21150, 20844, 23460, 21457, 24067, 21512, 35268,
      25351, 21335>>
Backup_Int2_rest ==
    <<28040, 24687, 65292, 27431, 30431, 65, 73, 21150, 20844, 23460, 21457,
      24067, 12298, 20154, 24037, 26234, 33021, 27861, 26696, 12299, 23454,
      26045, 32454, 21017, 65292, 26126, 30830, 20102, 39640, 39118, 38505,
      65, 73, 31995, 32479, 30340, 21512, 35268, 35201, 27714, 21644, 26102,
      38388, 34920, 12290>>
\* the supplier's items carry no url and no pub_date; the sources of the two
\* domestic items are written in Latin letters here (MIIT, CAS)
backup_domestic ==
    <<Item(Backup_Dom1_title, month_day \o Backup_Dom1_rest, "", "MIIT", NoDate),
      Item(Backup_Dom2_title, month_day \o Backup_Dom2_rest, "", "CAS", NoDate)>>

backup_international ==
    <<Item(Backup_Int1_title, month_day \o Backup_Int1_rest, "", "US Commerce Dept", NoDate),
      Item(Backup_Int2_title, month_day \o Backup_Int2_rest, "", "EU AI Policy", NoDate)>>

\* backup[:count] for count >= 0
generate_backup_news(category, count) ==
    IF category = "domestic" THEN Take(backup_domestic, count)
    ELSE Take(backup_international, count)

min_per_category == 10

\* one `if len(results[...]) < min_per_category` block of collect_news
TopUpGroup(group, news_list) ==
    IF Len(news_list) < min_per_category
    THEN news_list \o generate_backup_news(group, min_per_category - Len(news_list))
    ELSE news_list

\* the two groups of results, raw_news and processed_data
Groups == {"domestic", "international"}

\* ------------------------------------------------------------ process_news
\* config.MIN_NEWS_PER_CATEGORY, config.MAX_NEWS_PER_CATEGORY
MIN_NEWS_PER_CATEGORY == 5
MAX_NEWS_PER_CATEGORY == 20

\* f"{today.month}\u6708" on the run date, and "\u6d88\u606f\uff0c" (news,)
month_prefix == <<49, 26376>>
xiaoxi == <<28040, 24687, 65292>>

\* text.startswith(p)
StartsWith(text, p) == Len(text) >= Len(p) /\ SubSeq(text, 1, Len(p)) = p

\* the summary with f"{month_day}\u6d88\u606f\uff0c" in front
\* unless it starts with the month
DatedSummary(summary) ==
    IF StartsWith(summary, month_prefix) THEN summary
    ELSE month_day \o xiaoxi \o summary

WithImportance(scored_news, level) ==
    SelectSeq(scored_news, LAMBDA n : n.importance = level)

\* one entry of `processed`; the "reason" text repeats impact_score
ProcessedItem(i, news, summary) ==
    [index |-> i, title |-> news.title, summary |-> summary,
     importance |-> news.importance, tags |-> news.auto_tags,
     url |-> news.url, source |-> news.source,
     original_pub_date |-> news.pub_date, impact_score |-> news.impact_score]

_rule_based_process_uncapped(scored_news) ==
    LET high_importance == WithImportance(scored_news, High)
        medium_importance == WithImportance(scored_news, Medium)
        low_importance == WithImportance(scored_news, Low)
        selected1 ==
            IF Len(high_importance) < MIN_NEWS_PER_CATEGORY
            THEN high_importance
                    \o Take(medium_importance, MIN_NEWS_PER_CATEGORY - Len(high_importance))
            ELSE high_importance
        selected ==
            IF Len(selected1) < MIN_NEWS_PER_CATEGORY
            THEN selected1 \o Take(low_importance, MIN_NEWS_PER_CATEGORY - Len(selected1))
            ELSE selected1
    IN  [i \in 1..Len(selected) |->
            ProcessedItem(i, selected[i], DatedSummary(Take(selected[i].summary, 200)))]

_rule_based_process(scored_news) ==
    LET high_importance == WithImportance(scored_news, High)
        medium_importance == WithImportance(scored_news, Medium)
        low_importance == WithImportance(scored_news, Low)
        selected0 == Take(high_importance, MAX_NEWS_PER_CATEGORY)
        selected1 ==
            IF Len(selected0) < MIN_NEWS_PER_CATEGORY
            THEN selected0 \o Take(medium_importance, MIN_NEWS_PER_CATEGORY - Len(selected0))
            ELSE selected0
        selected ==
            IF Len(selected1) < MIN_NEWS_PER_CATEGORY
            THEN selected1 \o Take(low_importance, MIN_NEWS_PER_CATEGORY - Len(selected1))
            ELSE selected1
        final == Take(selected, MAX_NEWS_PER_CATEGORY)
    IN  [i \in 1..Len(final) |->
            ProcessedItem(i, final[i], DatedSummary(Take(final[i].summary, 200)))]

\* what the chat completion does when process_news calls it: there is no
\* client (no API key); the call raises or its content does not parse; the
\* content parses and lists the items it was given, in the order given, with
\* every field; it parses and lists an item whose "summary" is null; it parses
\* and lists the items in another order (the prompt asks for the most
\* important first); it parses and lists only some of the items
LLMAnswers == {"no_client", "error", "ok", "null_summary", "reordered", "subset"}

\* the positions of the prompt's n items that result["news"] speaks about, in
\* the order of result["news"]
LLMPicks(answer, n) ==
    IF answer = "reordered" THEN [i \in 1..n |-> n + 1 - i]
    ELSE IF answer = "subset" THEN [i \in 1..(n - 1) |-> i + 1]
    ELSE [i \in 1..n |-> i]

\* entry i of result["news"] after "index", "url", "source",
\* "original_pub_date" and "impact_score" are set: said is the item the
\* answer's entry speaks about, at_i is scored_news[i]
LLMItem(i, said, at_i) ==
    [index |-> i, title |-> said.title, summary |-> said.summary,
     importance |-> said.importance, tags |-> said.auto_tags,
     url |-> at_i.url, source |-> at_i.source,
     original_pub_date |-> at_i.pub_date, impact_score |-> at_i.impact_score]

\* the entries a parsed answer lists, completed from scored_news by their
\* position in the answer, [:MAX]
_process_with_llm(scored_news, answer) ==
    IF scored_news = <<>> THEN <<>>
    ELSE IF answer = "error" THEN _rule_based_process(scored_news)
    ELSE LET given == Take(scored_news, 30)
             picks == LLMPicks(answer, Len(given))
         IN  Take([i \in 1..Len(picks) |->
                      LLMItem(i, given[picks[i]], scored_news[i])],
                  MAX_NEWS_PER_CATEGORY)

\* the format step of _translate_international_news; a translation that the
\* client returns is not modelled (the summary is kept)
_translate_international_news(news_list) ==
    [i \in 1..Len(news_list) |->
        [news_list[i] EXCEPT !.summary = DatedSummary(news_list[i].summary)]]

_generate_brief(news_list, count) ==
    LET selected == Take(WithImportance(news_list, High)
                            \o WithImportance(news_list, Medium), count)
    IN  [i \in 1..Len(selected) |->
            [index |-> i, summary |-> selected[i].summary,
             importance |-> selected[i].importance]]

\* process_news raises: calculate_score reads config["weight"] for every
\* category as soon as rank_news has an item to score; the format step calls
\* startswith on the null summary of an international item
ProcessRaises(config, raw_news, answer) ==
    \/ config = "no_weight" /\ \E g \in Groups : raw_news[g] # <<>>
    \/ config = "ok" /\ answer = "null_summary" /\ raw_news["international"] # <<>>

\* the dict process_news returns
process_news(raw_news, answer) ==
    LET ranked == [g \in Groups |-> rank_news(raw_news[g])]
        refined == [g \in Groups |->
                      IF answer = "no_client" THEN _rule_based_process(ranked[g])
                      ELSE _process_with_llm(Take(ranked[g], 50), answer)]
        domestic == refined["domestic"]
        international == _translate_international_news(refined["international"])
    IN  [date |-> DateOf(Now),
         domestic |-> domestic,
         international |-> international,
         domestic_brief |-> _generate_brief(domestic, 5),
         international_brief |-> _generate_brief(international, 5),
         summary |-> "generated",
         statistics |->
             [raw_domestic |-> Len(raw_news["domestic"]),
              raw_international |-> Len(raw_news["international"]),
              raw_total |-> Len(raw_news["domestic"]) + Len(raw_news["international"]),
              final_domestic |-> Len(domestic),
              final_international |-> Len(international)]]

\* the dict run_daily_news puts in its place when process_news raises
FailedData ==
    [date |-> DateOf(Now), domestic |-> <<>>, international |-> <<>>,
     summary |-> "failed"]

\* ------------------------------------------------------------------ states
PipeIdle ==
    /\ pc = "off"
    /\ target = <<>>
    /\ net = <<>>
    /\ task = <<>>
    /\ future = <<>>
    /\ results = <<>>
    /\ stats = <<>>
    /\ scored = <<>>
    /\ main = <<>>

\* --------------------------------------------- Spec: one run of the pipeline
\* the configuration a run is started with: well-formed, or with a keyword
\* category that lacks its "weight"
Configs == {"ok", "no_weight"}

FnIdle ==
    /\ arg = <<>>
    /\ ret = <<>>
    /\ ret2 = <<>>
    /\ called = "off"

Init ==
    /\ pc = "start"
    /\ target = [s \in Sources |-> "unset"]
    /\ net \in [Sources -> Responses \cup {NoResponse}]
    /\ \A s \in Sources : (net[s] = NoResponse) <=> (SourceTable[s].type # "rss")
    /\ task = [s \in Sources |-> "none"]
    /\ future = [s \in Sources |-> <<>>]
    /\ results = [g \in Groups |-> <<>>]
    /\ stats = [total_sources |-> 0, successful_sources |-> 0,
                failed_sources |-> 0, total_news |-> 0]
    /\ scored = [g \in Groups |-> <<>>]
    /\ main \in {[config |-> c, processed_data |-> <<>>, saved |-> FALSE, returned |-> FALSE] :
                   c \in Configs}
    /\ FnIdle

\* collect_all up to the submission of every source to the executor
Submit ==
    /\ pc = "start"
    /\ target' = [s \in Sources |-> SourceTable[s].list]
    /\ stats' = [stats EXCEPT !.total_sources = Len(all_sources)]
    /\ task' = [s \in Sources |-> "queued"]
    /\ pc' = "loop"
    /\ UNCHANGED <<net, future, results, scored, main>>
    /\ UNCHANGED fnVars

WorkerFreeNoRelease(tasks) ==
    Cardinality({s \in Sources : tasks[s] \in {"running", "done", "consumed"}}) < max_workers

WorkerFreeUnbounded(tasks) ==
    Cardinality({s \in Sources : tasks[s] = "running"}) < Len(all_sources)

\* ThreadPoolExecutor(max_workers=self.max_workers): a worker is idle
WorkerFree(tasks) ==
    Cardinality({s \in Sources : tasks[s] = "running"}) < max_workers

\* the work queue is first in, first out: the earliest submitted waiting task
NextQueued(tasks) ==
    LET waiting == {i \in 1..Len(all_sources) : tasks[all_sources[i]] = "queued"}
    IN  all_sources[CHOOSE i \in waiting : \A j \in waiting : i <= j]

\* a worker thread takes the next task and enters _collect_from_source_safe
StartTask(s) ==
    /\ pc = "loop"
    /\ task[s] = "queued"
    /\ WorkerFree(task)
    /\ s = NextQueued(task)
    /\ task' = [task EXCEPT ![s] = "running"]
    /\ UNCHANGED <<pc, target, net, future, results, stats, scored, main>>
    /\ UNCHANGED fnVars

FinishTaskAppends(s) ==
    /\ pc = "loop"
    /\ task[s] = "running"
    /\ future' = [future EXCEPT ![s] = _collect_from_source_safe(s, net[s])]
    /\ results' = [results EXCEPT ![target[s]] = @ \o future'[s].value]
    /\ task' = [task EXCEPT ![s] = "done"]
    /\ UNCHANGED <<pc, target, net, stats, scored, main>>
    /\ UNCHANGED fnVars

\* _collect_from_source_safe returns (or raises) and the future is resolved
FinishTask(s) ==
    /\ pc = "loop"
    /\ task[s] = "running"
    /\ future' = [future EXCEPT ![s] = _collect_from_source_safe(s, net[s])]
    /\ task' = [task EXCEPT ![s] = "done"]
    /\ UNCHANGED <<pc, target, net, results, stats, scored, main>>
    /\ UNCHANGED fnVars

AggregateAssign(res, tgt, news_list) == [res EXCEPT ![tgt] = news_list]

\* results[target].extend(news_list)
AggregateExtend(res, tgt, news_list) == [res EXCEPT ![tgt] = res[tgt] \o news_list]

AggregateCountsEmpty(s) ==
    /\ pc = "loop"
    /\ task[s] = "done"
    /\ results' = AggregateExtend(results, target[s], future[s].value)
    /\ stats' = [stats EXCEPT !.successful_sources = @ + 1]
    /\ task' = [task EXCEPT ![s] = "consumed"]
    /\ UNCHANGED <<pc, target, net, future, scored, main>>
    /\ UNCHANGED fnVars

AggregateResubmits(s) ==
    /\ pc = "loop"
    /\ task[s] = "done"
    /\ IF future[s].value # <<>>
       THEN /\ results' = AggregateExtend(results, target[s], future[s].value)
            /\ stats' = [stats EXCEPT !.successful_sources = @ + 1]
            /\ task' = [task EXCEPT ![s] = "consumed"]
       ELSE /\ task' = [task EXCEPT ![s] = "queued"]
            /\ UNCHANGED <<results, stats>>
    /\ UNCHANGED <<pc, target, net, future, scored, main>>
    /\ UNCHANGED fnVars

\* one iteration of `for future in as_completed(future_to_source)`
Aggregate(s) ==
    /\ pc = "loop"
    /\ task[s] = "done"
    /\ IF future[s].raised
       THEN /\ stats' = [stats EXCEPT !.failed_sources = @ + 1]
            /\ UNCHANGED results
       ELSE LET news_list == future[s].value
                tgt == IF target[s] # "unset" THEN target[s] ELSE "international"
            IN  IF news_list # <<>>
                THEN /\ results' = AggregateExtend(results, tgt, news_list)
                     /\ stats' = [stats EXCEPT !.successful_sources = @ + 1]
                ELSE /\ stats' = [stats EXCEPT !.failed_sources = @ + 1]
                     /\ UNCHANGED results
    /\ task' = [task EXCEPT ![s] = "consumed"]
    /\ UNCHANGED <<pc, target, net, future, scored, main>>
    /\ UNCHANGED fnVars

\* the rest of collect_all: topical filter, date filter, dedup, time sort, total
FinishCollectAll ==
    /\ pc = "loop"
    /\ \A s \in Sources : task[s] = "consumed"
    /\ LET final == [g \in Groups |->
                       _sort_by_time(_deduplicate(_filter_by_date(_filter_ai_news(results[g]))))]
       IN  /\ results' = final
           /\ stats' = [stats EXCEPT !.total_news =
                            Len(final["domestic"]) + Len(final["international"])]
    /\ pc' = "collected"
    /\ UNCHANGED <<target, net, task, future, scored, main>>
    /\ UNCHANGED fnVars

\* collect_news after collect_all: the backup items
TopUp ==
    /\ pc = "collected"
    /\ results' = [g \in Groups |-> TopUpGroup(g, results[g])]
    /\ pc' = "topped"
    /\ UNCHANGED <<target, net, task, future, stats, scored, main>>
    /\ UNCHANGED fnVars

\* run_daily_news step 2, process_news returns: rank_news on both groups of
\* raw_news, refinement, format, briefs, statistics
Rank ==
    /\ pc = "topped"
    /\ \E answer \in LLMAnswers :
         /\ ~ProcessRaises(main.config, results, answer)
         /\ main' = [main EXCEPT !.processed_data = process_news(results, answer)]
    /\ scored' = [g \in Groups |-> rank_news(results[g])]
    /\ pc' = "scored"
    /\ UNCHANGED <<target, net, task, future, results, stats>>
    /\ UNCHANGED fnVars

\* run_daily_news step 2, process_news raises: `except Exception` prints the
\* error and goes on with the empty data
ProcessFails ==
    /\ pc = "topped"
    /\ \E answer \in LLMAnswers : ProcessRaises(main.config, results, answer)
    /\ main' = [main EXCEPT !.processed_data = FailedData]
    /\ scored' = IF main.config = "ok"
                 THEN [g \in Groups |-> rank_news(results[g])]
                 ELSE scored
    /\ pc' = "failed"
    /\ UNCHANGED <<target, net, task, future, results, stats>>
    /\ UNCHANGED fnVars

\* run_daily_news steps 3 and 4: save_news inside try/except, the report, and
\* `return processed_data`
Finish ==
    /\ pc \in {"scored", "failed"}
    /\ \E save_ok \in BOOLEAN :
         main' = [main EXCEPT !.saved = save_ok, !.returned = TRUE]
    /\ pc' = "returned"
    /\ UNCHANGED <<target, net, task, future, results, stats, scored>>
    /\ UNCHANGED fnVars

Next ==
    \/ Submit
    \/ \E s \in Sources : StartTask(s)
    \/ \E s \in Sources : FinishTask(s)
    \/ \E s \in Sources : Aggregate(s)
    \/ FinishCollectAll
    \/ TopUp
    \/ Rank
    \/ ProcessFails
    \/ Finish

Spec == Init /\ [][Next]_vars

\* ENABLED of the two steps below, read off their guards: each changes task or pc
FetchRunning == pc = "loop" /\ \E s \in Sources : task[s] = "running"
LoopEnded == pc = "loop" /\ \A s \in Sources : task[s] = "consumed"

\* every started fetch returns or fails within its timeout, the executor hands
\* waiting tasks to idle workers, and the coordinator thread keeps running.
\* For FinishTask and FinishCollectAll weak fairness is written out,
\* WF_v(A) == []<>~ENABLED <<A>>_v \/ []<><<A>>_v, with ENABLED as above
FairSpec ==
    /\ Spec
    /\ WF_vars(Submit)
    /\ WF_vars(\E s \in Sources : StartTask(s))
    /\ ([]<>(~FetchRunning) \/ []<><<\E s \in Sources : FinishTask(s)>>_vars)
    /\ WF_vars(\E s \in Sources : Aggregate(s))
    /\ ([]<>(~LoopEnded) \/ []<><<FinishCollectAll>>_vars)

\* ------------------------------------------------------ claims on the run
Failing(s) == net[s].kind \in FailureKinds

\* what the fetch of source s returns when it does not fail
ReturnedBy(s) ==
    IF SourceTable[s].type = "rss" /\ ~Failing(s) THEN _collect_from_rss(s, net[s]) ELSE <<>>

\* the lists of the non-failing sources of group g, one after the other in
\* submission order
RECURSIVE ConcatFrom(_, _)
ConcatFrom(g, i) ==
    IF i > Len(all_sources) THEN <<>>
    ELSE (IF SourceTable[all_sources[i]].list = g THEN ReturnedBy(all_sources[i]) ELSE <<>>)
         \o ConcatFrom(g, i + 1)

BagOfSeq(seq) ==
    [x \in {seq[i] : i \in DOMAIN seq} |-> Cardinality({i \in DOMAIN seq : seq[i] = x})]

\* C1: fault isolation: whichever sources fail, no future hands an exception to
\* the coordinator, and when the aggregation loop ends the merged raw list of
\* each group holds exactly the items returned by the non-failing sources of
\* that group.
C1_FaultIsolation ==
    /\ \A s \in Sources : task[s] \in {"done", "consumed"} => ~future[s].raised
    /\ LoopEnded =>
         \A g \in Groups : BagOfSeq(results[g]) = BagOfSeq(ConcatFrom(g, 1))

\* the loop ended with the second international source failed by an exception
\* and the other two sources' items merged
C1_Witness ==
    /\ LoopEnded
    /\ net[1].kind = "feed" /\ net[2].kind = "raise" /\ net[3].kind = "feed"
    /\ results["international"] = ReturnedBy(1) /\ ReturnedBy(1) # <<>>
    /\ results["domestic"] = ReturnedBy(3) /\ ReturnedBy(3) # <<>>
    /\ stats.failed_sources = 1

\* the output of the pipeline on the lists merged in submission order
PipelineOf(g) ==
    rank_news(TopUpGroup(g,
        _sort_by_time(_deduplicate(_filter_by_date(_filter_ai_news(ConcatFrom(g, 1)))))))

\* C2 as stated: for fixed per-source fetch results the final per-group output is
\* the same item sequence for every completion order, hence the one obtained
\* when the tasks complete in submission order.
C2_AsStated ==
    pc = "scored" => \A g \in Groups : scored[g] = PipelineOf(g)

\* C3: every fetch task returning or failing in the end, collect_all leaves the
\* fetch phase with every submitted source accounted for and has its results
\* filtered.
C3_Completion ==
    <>(/\ pc = "collected"
       /\ \A s \in Sources : task[s] = "consumed"
       /\ stats.successful_sources + stats.failed_sources = stats.total_sources)

\* collect_all finished a run of more sources than workers in which one source
\* timed out, one raised and one delivered
C3_Witness ==
    /\ pc = "collected"
    /\ NumSources > max_workers
    /\ \E s, t, u \in Sources :
         net[s].kind = "timeout" /\ net[t].kind = "raise" /\ net[u].kind = "feed"
    /\ stats.successful_sources = 1

\* the two predicates of the filters, as the claim words them
PassesTopical(news) ==
    \E c \in 1..Len(IMPACT_KEYWORDS) : \E k \in 1..Len(IMPACT_KEYWORDS[c].keywords) :
        Contains(LowerText(IMPACT_KEYWORDS[c].keywords[k]),
                 LowerText(SpaceJoin(news.title, news.summary)))

PassesTemporal(news) ==
    news.pub_date = <<>> \/ DateOf(news.pub_date[1]) \in {DateOf(Now), DateOf(Now) - 1}

\* C6 as stated: every item that reaches rank_news has passed the topical filter
\* and the temporal filter, on every path into a group's list.
C6_AsStated ==
    pc = "scored" =>
        \A g \in Groups : \A i \in 1..Len(results[g]) :
            PassesTopical(results[g][i]) /\ PassesTemporal(results[g][i])

IsBackupItem(g, news) ==
    \E k \in 1..Len(generate_backup_news(g, min_per_category)) :
        news = generate_backup_news(g, min_per_category)[k]

\* C6: every item of collect_all's output has passed both filters, and every
\* item that reaches rank_news either has passed both filters or is one of the
\* backup items collect_news appended to its group after the filters.
C6_FilteredOrBackup ==
    /\ pc = "collected" =>
          \A g \in Groups : \A i \in 1..Len(results[g]) :
              PassesTopical(results[g][i]) /\ PassesTemporal(results[g][i])
    /\ pc = "scored" =>
          \A g \in Groups : \A i \in 1..Len(results[g]) :
              \/ PassesTopical(results[g][i]) /\ PassesTemporal(results[g][i])
              \/ IsBackupItem(g, results[g][i])

\* rank_news received a group holding a fetched item that passed the filters
\* and a backup item that holds no configured keyword
C6_Witness ==
    /\ pc = "scored"
    /\ \E g \in Groups : \E i, j \in 1..Len(results[g]) :
          /\ ~IsBackupItem(g, results[g][i])
          /\ PassesTopical(results[g][i]) /\ PassesTemporal(results[g][i])
          /\ IsBackupItem(g, results[g][j])
          /\ ~PassesTopical(results[g][j])

\* ------------------------------------------------- SpecDedup: _deduplicate
DedupTitles == {T_GPT5_A, T_GPT5_B, T_Punct, T_Under, T_Zh}
DedupUrls == {"", "u1", "u2"}
DedupItems == {Item(t, <<>>, u, "src", NoDate) : t \in DedupTitles, u \in DedupUrls}

RECURSIVE ListsUpTo(_, _)
ListsUpTo(S, n) ==
    IF n = 0 THEN {<<>>}
    ELSE LET shorter == ListsUpTo(S, n - 1)
         IN  shorter \cup {Append(l, x) : l \in {m \in shorter : Len(m) = n - 1}, x \in S}

InitDedup ==
    /\ PipeIdle
    /\ arg \in ListsUpTo(DedupItems, MaxListLen)
    /\ ret = <<>>
    /\ ret2 = <<>>
    /\ called = "none"

\* unique = collector._deduplicate(L)
CallDedup ==
    /\ called = "none"
    /\ ret' = _deduplicate(arg)
    /\ called' = "dedup"
    /\ UNCHANGED <<arg, ret2>>
    /\ UNCHANGED pipeVars

\* collector._deduplicate(unique)
CallDedupAgain ==
    /\ called = "dedup"
    /\ ret2' = _deduplicate(ret)
    /\ called' = "dedup2"
    /\ UNCHANGED <<arg, ret>>
    /\ UNCHANGED pipeVars

NextDedup == CallDedup \/ CallDedupAgain

SpecDedup == InitDedup /\ [][NextDedup]_vars

\* C4: deduplication is idempotent: applying _deduplicate to its own output
\* returns that output unchanged, as a sequence.
C4_DedupIdempotent == called = "dedup2" => ret2 = ret

\* a three-item list without empty keys, holding a URL duplicate with different
\* titles, was deduplicated twice, and the first pass had dropped two items
C4_Witness ==
    /\ called = "dedup2"
    /\ Len(arg) = 3
    /\ Len(ret) = 1
    /\ \A i \in 1..Len(arg) : simple_title(arg[i]) # <<>>
    /\ \E i, j \in 1..Len(arg) : i < j /\ arg[i].url = arg[j].url /\ arg[i].url # ""
                                 /\ simple_title(arg[i]) # simple_title(arg[j])

\* the items of L at the positions of K, in input order
Pick(L, K) ==
    LET F[i \in 0..Len(L)] ==
            IF i = 0 THEN <<>>
            ELSE IF i \in K THEN Append(F[i - 1], L[i]) ELSE F[i - 1]
    IN  F[Len(L)]

\* the normalization as the claim words it: lowercased, only letters, digits
\* and CJK kept
ClaimKey(news) ==
    SelectSeq(LowerText(news.title),
              LAMBDA c : \/ c >= 97 /\ c <= 122
                         \/ c >= 48 /\ c <= 57
                         \/ c >= 19968 /\ c <= 40959)

\* C5 as stated: an item is discarded iff its normalized title (letters, digits,
\* CJK) occurred on an item before it in the input, or its non-empty URL occurred
\* on an item before it; every other item is kept.
C5_AsStated ==
    called # "none" =>
        LET K == {i \in 1..Len(arg) :
                    ~ \E j \in 1..(i - 1) :
                        \/ ClaimKey(arg[j]) = ClaimKey(arg[i])
                        \/ arg[i].url # "" /\ arg[j].url = arg[i].url}
        IN  ret = Pick(arg, K)

\* C5 (amended): _deduplicate processes the items in input order and discards an
\* item iff its normalized title (lowercased, only word characters kept: letters,
\* digits, underscore, CJK) is empty, or equals the normalized title of an item
\* KEPT before it, or its non-empty URL equals the URL of an item kept before it;
\* every other item is kept; an item with an empty URL is judged on its
\* normalized title alone.
C5_DedupRule ==
    called # "none" =>
        \E K \in SUBSET (1..Len(arg)) :
            /\ ret = Pick(arg, K)
            /\ \A i \in 1..Len(arg) :
                 i \in K <=>
                    /\ simple_title(arg[i]) # <<>>
                    /\ \A j \in K :
                         j < i =>
                            /\ simple_title(arg[j]) # simple_title(arg[i])
                            /\ (arg[i].url = "" \/ arg[j].url # arg[i].url)

\* the second item was discarded for its URL and the third, which repeats the
\* second's title under a new URL, was kept: only kept items count as seen
C5_Witness ==
    /\ called = "dedup"
    /\ Len(arg) = 3
    /\ arg[1].url # "" /\ arg[2].url = arg[1].url
    /\ simple_title(arg[1]) # <<>>
    /\ simple_title(arg[2]) # simple_title(arg[1])
    /\ simple_title(arg[3]) = simple_title(arg[2])
    /\ arg[3].url \notin {"", arg[1].url}
    /\ ret = <<arg[1], arg[3]>>

\* ------------------------------------- SpecScore: ImpactScorer on its own
\* longest list given to rank_news in SpecScore
MaxRankLen == 2
\* largest score (in tenths) given to _determine_importance in SpecScore
MaxScoreTenths == 1200

ScoreTitles == {S_Example, S_Double, S_Signal, S_SignalZh, S_Plain, S_None}
ScoreSummaries == {<<>>, Sum_Export}
ScoreSources == {"Reuters Technology", "OpenAI Blog", "TechBlog"}
ScoreItems ==
    {Item(t, s, "", src, NoDate) :
        t \in ScoreTitles, s \in ScoreSummaries, src \in ScoreSources}

\* the item of the scoring scenario
ExampleItem == Item(S_Example, <<>>, "", "Reuters Technology", NoDate)

InitScore ==
    /\ PipeIdle
    /\ arg \in ListsUpTo(ScoreItems, MaxRankLen)
    /\ ret = <<>>
    /\ ret2 = <<>>
    /\ called = "none"

\* score, importance, tags = scorer.calculate_score(news)
CallScore ==
    /\ called = "none"
    /\ Len(arg) = 1
    /\ ret' = calculate_score(arg[1])
    /\ called' = "score"
    /\ UNCHANGED <<arg, ret2>>
    /\ UNCHANGED pipeVars

\* scorer.rank_news(news_list)
CallRank ==
    /\ called = "none"
    /\ ret' = rank_news(arg)
    /\ called' = "rank"
    /\ UNCHANGED <<arg, ret2>>
    /\ UNCHANGED pipeVars

\* scorer._determine_importance(score)
CallImportance ==
    /\ called = "none"
    /\ arg = <<>>
    /\ \E score \in 0..MaxScoreTenths :
         ret' = [score |-> score, importance |-> _determine_importance(score)]
    /\ called' = "importance"
    /\ UNCHANGED <<arg, ret2>>
    /\ UNCHANGED pipeVars

NextScore == CallScore \/ CallRank \/ CallImportance

SpecScore == InitScore /\ [][NextScore]_vars

\* what the claims say about one item, stated on the text and the tables
ContentOf(news) == SpaceJoin(LowerText(news.title), LowerText(news.summary))

KeywordHits(c, news) ==
    {k \in 1..Len(IMPACT_KEYWORDS[c].keywords) :
        Contains(LowerText(IMPACT_KEYWORDS[c].keywords[k]), ContentOf(news))}

MatchedCategories(news) == {c \in 1..Len(IMPACT_KEYWORDS) : KeywordHits(c, news) # {}}

SignalWords(news) ==
    {w \in 1..Len(important_title_words) :
        Contains(LowerText(important_title_words[w]), LowerText(news.title))}

\* C7 as stated: a matched category contributes its weight once, however many of
\* its keywords occur, so the base score is the maximum weight among the matched
\* categories (0 when none matched).
C7_AsStated ==
    called = "score" =>
        LET M == MatchedCategories(arg[1])
        IN  ret.base_score = IF M = {} THEN 0
                             ELSE MaxOf({IMPACT_KEYWORDS[c].weight : c \in M})

\* C7 (amended): a matched category contributes its weight once for EACH of its
\* keywords that occurs in the lowercased title+summary, so the base score is the
\* maximum over the matched categories of weight x (number of that category's
\* keywords that occur), and 0 when none matched.
C7_BaseScore ==
    called = "score" =>
        LET M == MatchedCategories(arg[1])
        IN  /\ DOMAIN ret.category_scores = {IMPACT_KEYWORDS[c].name : c \in M}
            /\ \A c \in M :
                 ret.category_scores[IMPACT_KEYWORDS[c].name] =
                    IMPACT_KEYWORDS[c].weight * Cardinality(KeywordHits(c, arg[1]))
            /\ ret.base_score =
                 IF M = {} THEN 0
                 ELSE MaxOf({IMPACT_KEYWORDS[c].weight * Cardinality(KeywordHits(c, arg[1])) :
                             c \in M})

\* two keywords of one category occur in the scored item: its weight counted twice
C7_Witness ==
    /\ called = "score"
    /\ \E c \in MatchedCategories(arg[1]) :
         /\ Cardinality(KeywordHits(c, arg[1])) = 2
         /\ ret.base_score = 2 * IMPACT_KEYWORDS[c].weight

\* the multiplier of the first tier, in table order, that lists the source
FirstTierMultiplier(source) ==
    LET hits == {t \in 1..Len(SOURCE_WEIGHTS) : source \in SOURCE_WEIGHTS[t].sources}
    IN  IF hits = {} THEN 10
        ELSE SOURCE_WEIGHTS[CHOOSE t \in hits : \A u \in hits : t <= u].multiplier

\* C8: final score = base score x source multiplier + 20 per configured signal
\* word contained in the lowercased title + 15 x (k - 1) when k >= 2 categories
\* matched; the bonuses are added after the multiplication, unscaled and
\* uncapped; the scenario item scores 111 and is tier High.  (Tenths.)
C8_FinalScore ==
    called = "score" =>
        LET k == Cardinality(MatchedCategories(arg[1]))
        IN  /\ ret.final_score =
                 ret.base_score * FirstTierMultiplier(arg[1].source)
                 + 200 * Cardinality(SignalWords(arg[1]))
                 + (IF k >= 2 THEN 150 * (k - 1) ELSE 0)
            /\ arg[1] = ExampleItem =>
                 /\ ret.base_score = 80
                 /\ ret.final_score = 1110
                 /\ ret.importance = High

\* the scenario item has been scored
C8_Witness ==
    /\ called = "score"
    /\ arg[1] = ExampleItem
    /\ ret.final_score = 1110
    /\ ret.source_multiplier = 12
    /\ Cardinality(MatchedCategories(arg[1])) = 2

\* C9 as stated: an item matching no keyword has base score 0 and tier Low,
\* whatever its title and source are.
C9_AsStated ==
    called = "score" /\ MatchedCategories(arg[1]) = {} =>
        ret.base_score = 0 /\ ret.importance = Low

\* C9 (amended): for an item matching no keyword calculate_score returns with base
\* score 0 and final score 20 x (number of signal words in its title), whatever
\* its source; its tier is that of this score: Low when the title holds at most
\* one signal word, Medium from two, High from four.
C9_ZeroMatch ==
    called = "score" /\ MatchedCategories(arg[1]) = {} =>
        LET n == Cardinality(SignalWords(arg[1]))
        IN  /\ ret.base_score = 0
            /\ ret.final_score = 200 * n
            /\ ret.importance = (IF n >= 4 THEN High ELSE IF n >= 2 THEN Medium ELSE Low)

\* an item matching no keyword, from a source with a multiplier above 1.0, with
\* two signal words in its title, has been scored
C9_Witness ==
    /\ called = "score"
    /\ MatchedCategories(arg[1]) = {}
    /\ arg[1].source = "Reuters Technology"
    /\ Cardinality(SignalWords(arg[1])) = 2
    /\ ret.base_score = 0
    /\ ret.importance = Medium

\* the tier the thresholds give to a score in tenths
TierOf(score) ==
    CHOOSE t \in {High, Medium, Low} :
        /\ t = High <=> score >= 800
        /\ t = Medium <=> (score >= 400 /\ score < 800)
        /\ t = Low <=> score < 400

\* C10: _determine_importance returns High iff score >= 80, Medium iff
\* 40 <= score < 80 and Low iff score < 40, exactly one tier per score; every
\* item rank_news produces carries the tier of its own stored impact_score.
C10_Tiering ==
    /\ called = "importance" =>
         /\ ret.importance = High <=> ret.score >= 800
         /\ ret.importance = Medium <=> (ret.score >= 400 /\ ret.score < 800)
         /\ ret.importance = Low <=> ret.score < 400
         /\ ret.importance \in {High, Medium, Low}
    /\ called = "rank" =>
         \A i \in 1..Len(ret) : ret[i].importance = TierOf(ret[i].impact_score)
    /\ called = "score" => ret.importance = TierOf(ret.final_score)

\* rank_news returned an item scored exactly 80.0 (High) and one scored exactly
\* 40.0 (Medium)
C10_Witness ==
    /\ called = "rank"
    /\ \E i, j \in 1..Len(ret) :
         /\ ret[i].impact_score = 800 /\ ret[i].importance = High
         /\ ret[j].impact_score = 400 /\ ret[j].importance = Medium


\* C11: stable ranking: the list rank_news returns is a permutation of the
\* scored input, non-increasing by impact_score, and two items of equal score
\* stand in the order they had in the input.
C11_StableRanking ==
    called = "rank" =>
        /\ Len(ret) = Len(arg)
        /\ \E p \in Permutations(1..Len(arg)) :
              /\ \A k \in 1..Len(arg) : ret[k] = Scored(arg[p[k]])
              /\ \A k, l \in 1..Len(arg) :
                    k < l =>
                      /\ ret[k].impact_score >= ret[l].impact_score
                      /\ ret[k].impact_score = ret[l].impact_score => p[k] < p[l]

\* rank_news was given two different items of one positive score and returned
\* them in input order
C11_Witness ==
    /\ called = "rank"
    /\ Len(arg) = 2
    /\ arg[1] # arg[2]
    /\ Scored(arg[1]).impact_score = Scored(arg[2]).impact_score
    /\ Scored(arg[1]).impact_score > 0
    /\ ret = <<Scored(arg[1]), Scored(arg[2])>>

\* --------------------------------------- SpecRank: rank_news on permutations
\* longest list whose permutations are ranked
MaxPermLen == 3

\* items of scores 0, 40, 80, 96 and 111, two of them equal in score (0)
RankItems ==
    {Item(t, <<>>, "", "TechBlog", NoDate) : t \in {S_Signal, S_Plain, S_None}}
    \cup {Item(t, <<>>, "", "Reuters Technology", NoDate) :
             t \in {S_Example, S_Plain, S_None}}

InitRank ==
    /\ PipeIdle
    /\ arg \in ListsUpTo(RankItems, MaxPermLen)
    /\ ret = <<>>
    /\ ret2 = <<>>
    /\ called = "none"

SpecRank == InitRank /\ [][CallRank]_vars

\* what C12 compares: the item as given, its score and its tier
Triple(r) ==
    [item |-> Item(r.title, r.summary, r.url, r.source, r.pub_date),
     score |-> r.impact_score, tier |-> r.importance]

TriplesOf(ranked) == BagOfSeq([k \in 1..Len(ranked) |-> Triple(ranked[k])])

\* C12: scoring is per item and independent of order: for every permutation of
\* the list given to rank_news the multiset of (item, score, tier) triples is
\* the same, and each item gets the score and tier it gets when scored alone.
C12_OrderIndependent ==
    called = "rank" =>
        /\ \A p \in Permutations(1..Len(arg)) :
              TriplesOf(rank_news([k \in 1..Len(arg) |-> arg[p[k]]])) = TriplesOf(ret)
        /\ TriplesOf(ret) =
              BagOfSeq([k \in 1..Len(arg) |-> Triple(rank_news(<<arg[k]>>)[1])])

\* rank_news was given three items, the lowest score first and the highest last
C12_Witness ==
    /\ called = "rank"
    /\ Len(arg) = 3
    /\ Scored(arg[2]).impact_score < Scored(arg[3]).impact_score
    /\ Scored(arg[1]).impact_score < Scored(arg[2]).impact_score
    /\ Scored(arg[1]).impact_score > 0
    /\ ret = <<Scored(arg[3]), Scored(arg[2]), Scored(arg[1])>>

\* C13 as stated: a group holding n < 10 items after collection ends the top-up
\* with exactly 10 items, the collected ones followed by 10 - n backup items; a
\* group holding 10 or more is left unchanged.
C13_AsStated ==
    [][TopUp =>
         \A g \in Groups :
             IF Len(results[g]) < min_per_category
             THEN /\ Len(results'[g]) = min_per_category
                  /\ SubSeq(results'[g], 1, Len(results[g])) = results[g]
             ELSE results'[g] = results[g]]_vars

\* ------------------------------- SpecFilter: _filter_ai_news, _filter_by_date
\* longest list given to a filter
MaxFilterLen == 3

\* "New executive"
F_Executive == <<78, 101, 119, 32, 101, 120, 101, 99, 117, 116, 105, 118, 101>>
\* "order signed"
F_Order == <<111, 114, 100, 101, 114, 32, 115, 105, 103, 110, 101, 100>>

\* today 10:00, yesterday 23:00, day 8 23:00, day 7 22:00 (three days before
\* the run date, 62 hours old), tomorrow 08:00
FilterDates == {<<250>>, <<239>>, <<215>>, <<190>>, <<272>>}

FilterItems ==
    {Item(t, s, "", "src", NoDate) :
        t \in {S_Double, S_None, F_Executive}, s \in {<<>>, Sum_Export, F_Order}}
      \cup {Item(S_Double, <<>>, "", "src", d) : d \in FilterDates}

InitFilter ==
    /\ PipeIdle
    /\ arg \in ListsUpTo(FilterItems, MaxFilterLen)
    /\ ret = <<>>
    /\ ret2 = <<>>
    /\ called = "none"

\* collector._filter_ai_news(news_list)
CallFilterAI ==
    /\ called = "none"
    /\ ret' = _filter_ai_news(arg)
    /\ called' = "filter_ai"
    /\ UNCHANGED <<arg, ret2>>
    /\ UNCHANGED pipeVars

\* collector._filter_by_date(news_list)
CallFilterDate ==
    /\ called = "none"
    /\ ret' = _filter_by_date(arg)
    /\ called' = "filter_date"
    /\ UNCHANGED <<arg, ret2>>
    /\ UNCHANGED pipeVars

NextFilter == CallFilterAI \/ CallFilterDate

SpecFilter == InitFilter /\ [][NextFilter]_vars

\* the k-th smallest position of a set of positions
KthOf(K, k) == CHOOSE i \in K : Cardinality({j \in K : j < i}) = k - 1

\* out holds the items of list at the positions K, once each, in input order
KeepsExactly(out, list, K) ==
    /\ Len(out) = Cardinality(K)
    /\ \A k \in 1..Len(out) : out[k] = list[KthOf(K, k)]

\* C14: topical pass: _filter_ai_news keeps an item iff its lowercased
\* "title summary" text contains a keyword of some category, and the kept items
\* appear once each, in input order.
C14_TopicalPass ==
    called = "filter_ai" =>
        KeepsExactly(ret, arg, {i \in 1..Len(arg) : PassesTopical(arg[i])})

\* the filter was given an item without a keyword between an item whose keyword
\* is spelt with capitals and one whose keyword spans title and summary
C14_Witness ==
    /\ called = "filter_ai"
    /\ arg = <<Item(S_Double, <<>>, "", "src", NoDate),
               Item(S_None, <<>>, "", "src", NoDate),
               Item(F_Executive, F_Order, "", "src", NoDate)>>
    /\ ret = <<arg[1], arg[3]>>

\* C15: temporal pass: _filter_by_date keeps an item iff it has no publication
\* date or its publication date is the run date or the day before; the kept
\* items appear once each, in input order.  An item dated three days before the
\* run date or in the future is dropped.
C15_TemporalPass ==
    called = "filter_date" =>
        /\ KeepsExactly(ret, arg, {i \in 1..Len(arg) : PassesTemporal(arg[i])})
        /\ \A i \in 1..Len(ret) :
              ret[i].pub_date # <<>> =>
                  /\ DateOf(ret[i].pub_date[1]) # DateOf(Now) - 3
                  /\ DateOf(ret[i].pub_date[1]) <= DateOf(Now)

\* the filter dropped an item dated three days before the run date, which the
\* fetcher's 3-day window admits, and an item dated tomorrow, and kept an
\* undated item
C15_Witness ==
    /\ called = "filter_date"
    /\ arg = <<Item(S_Double, <<>>, "", "src", <<190>>),
               Item(S_Double, <<>>, "", "src", NoDate),
               Item(S_Double, <<>>, "", "src", <<272>>)>>
    /\ DateOf(190) = DateOf(Now) - 3
    /\ RssStep(<<>>, 1, Entry(S_Double, <<>>, "", <<190>>)) # <<>>
    /\ ret = <<arg[2]>>

\* C16: source multiplier: calculate_score uses the multiplier of the first
\* tier, in configured order, whose source list holds the item's source name;
\* a source listed in several tiers gets the first one's, an unlisted source 1.0.
C16_SourceMultiplier ==
    called = "score" =>
        /\ ret.source_multiplier = FirstTierMultiplier(arg[1].source)
        /\ (\A t \in 1..Len(SOURCE_WEIGHTS) : arg[1].source \notin SOURCE_WEIGHTS[t].sources)
              => ret.source_multiplier = 10
        /\ \A t \in 1..Len(SOURCE_WEIGHTS) :
              (/\ arg[1].source \in SOURCE_WEIGHTS[t].sources
               /\ \A u \in 1..(t - 1) : arg[1].source \notin SOURCE_WEIGHTS[u].sources)
                  => ret.source_multiplier = SOURCE_WEIGHTS[t].multiplier

\* an item of a source that two tiers list was scored with the first tier's 1.2
C16_Witness ==
    /\ called = "score"
    /\ Cardinality({t \in 1..Len(SOURCE_WEIGHTS) :
                       arg[1].source \in SOURCE_WEIGHTS[t].sources}) = 2
    /\ ret.source_multiplier = 12
    /\ ret.base_score = 80
    /\ ret.final_score >= 960

\* the lists the consumed futures of group g returned, one after the other
RECURSIVE ConsumedFrom(_, _)
ConsumedFrom(g, i) ==
    IF i > Len(all_sources) THEN <<>>
    ELSE (IF task[all_sources[i]] = "consumed" /\ target[all_sources[i]] = g
          THEN future[all_sources[i]].value ELSE <<>>)
         \o ConsumedFrom(g, i + 1)

\* C17: single-writer aggregation: while the fetch tasks run, the result lists
\* and the statistics change only in a step of the coordinator that consumes a
\* finished future, never in a step of a fetch task; in every interleaving each
\* group's merged list is the multiset union of the lists its consumed tasks
\* returned, and at the end of the loop of all its tasks.
C17_SingleWriter ==
    /\ [](pc = "loop" =>
            \A g \in Groups : BagOfSeq(results[g]) = BagOfSeq(ConsumedFrom(g, 1)))
    /\ [][(pc = "loop" /\ pc' = "loop" /\ <<results, stats>>' # <<results, stats>>)
             => \E s \in Sources : task[s] = "done" /\ task'[s] = "consumed"]_vars

\* two tasks of one group ran at the same time, finished in the opposite order
\* of their submission and both lists were merged
C17_Witness ==
    /\ LoopEnded
    /\ \E s, t \in Sources :
         /\ s < t /\ target[s] = target[t]
         /\ future[s].value # <<>> /\ future[t].value # <<>>
         /\ results[target[s]] = future[t].value \o future[s].value

\* C18 as stated: a run of collect_all leaves every configured source descriptor
\* with the fields and values it had before the run (here: without a "target").
C18_AsStated ==
    \A s \in Sources : target[s] = "unset"

\* C19 as stated: a scoring configuration error (a keyword category without its
\* weight) is fatal: the run aborts instead of going on to save, report and
\* return a result.
C19_AsStated ==
    main.config = "no_weight" => pc # "returned"

\* C20 as stated: whatever per-source or per-item failure occurs with a
\* well-formed configuration, the data run_daily_news returns holds a list for
\* each of the two groups and a statistics summary.
C20_AsStated ==
    (pc = "returned" /\ main.config = "ok") =>
        /\ {"domestic", "international"} \subseteq DOMAIN main.processed_data
        /\ "statistics" \in DOMAIN main.processed_data

\* C21 as stated: when process_news has returned, every curated item of a group
\* has the title, url, source and impact_score of one and the same item of the
\* scored list of that group.
C21_AsStated ==
    pc = "scored" =>
        \A g \in Groups :
            \A i \in DOMAIN main.processed_data[g] :
                \E k \in DOMAIN scored[g] :
                    LET curated == main.processed_data[g][i]
                        given == scored[g][k]
                    IN  /\ curated.title = given.title
                        /\ curated.url = given.url
                        /\ curated.source = given.source
                        /\ curated.impact_score = given.impact_score

\* the rank of a task's position: a task only moves forward
TaskRank(t) ==
    CASE t = "none" -> 0
      [] t = "queued" -> 1
      [] t = "running" -> 2
      [] t = "done" -> 3
      [] t = "consumed" -> 4

\* C22: no retries: in every step a source's task stays where it is or moves one
\* position forward (submitted, fetched, finished, consumed), so it is submitted
\* once and fetched once, whether the fetch delivers, returns nothing or fails;
\* when the loop has ended every source has been fetched and consumed; the step
\* that consumes a failed source leaves the result lists as they are.
C22_NoRetries ==
    /\ [](pc \notin {"start", "loop"} => \A s \in Sources : task[s] = "consumed")
    /\ [][\A s \in Sources :
            /\ TaskRank(task'[s]) \in {TaskRank(task[s]), TaskRank(task[s]) + 1}
            /\ (task[s] = "done" /\ task'[s] = "consumed" /\ net[s].kind \in FailureKinds)
                  => (future[s].value = <<>> /\ results' = results)]_vars

\* the loop ended after a source that raised, a source whose feed did not
\* parse (nothing returned) and a source that delivered were each fetched and
\* consumed
C22_Witness ==
    /\ LoopEnded
    /\ \E s, t, u \in Sources :
         /\ net[s].kind = "raise" /\ net[t].kind = "bozo" /\ net[u].kind = "feed"
         /\ future[s].value = <<>> /\ future[t].value = <<>> /\ future[u].value # <<>>
    /\ stats.failed_sources = 2
    /\ stats.successful_sources = 1

\* the fetch tasks in execution
Running == {s \in Sources : task[s] = "running"}

\* C23: bounded concurrency: at every moment of collect_all at most max_workers
\* fetch tasks are in execution, also when more sources are configured than
\* there are workers; a task starts only in a step that finds fewer than
\* max_workers tasks in execution, and waits in the queue until then.
C23_BoundedConcurrency ==
    /\ [](Cardinality(Running) <= max_workers)
    /\ [][\A s \in Sources :
            (task[s] = "queued" /\ task'[s] # "queued")
                => (task'[s] = "running" /\ Cardinality(Running) < max_workers)]_vars

\* every worker is busy and a submitted task waits, with more sources
\* configured than workers
C23_Witness ==
    /\ pc = "loop"
    /\ Len(all_sources) > max_workers
    /\ Cardinality(Running) = max_workers
    /\ \E s \in Sources : task[s] = "queued"

\* ------------------------- SpecCurate: the refinement step of process_news
\* most High items of a scored list (above MAX_NEWS_PER_CATEGORY), and most
\* Medium and most Low items (above MIN_NEWS_PER_CATEGORY)
MaxHigh == 21
MaxFill == 6

\* item k of a scored list: a two-digit title of its own, the lowest score of
\* its tier
CurateItem(k, level) ==
    [title |-> <<48 + (k \div 10), 48 + (k % 10)>>, summary |-> <<>>, url |-> "",
     source |-> "TechBlog", pub_date |-> NoDate,
     impact_score |-> IF level = High THEN 800 ELSE IF level = Medium THEN 400 ELSE 0,
     importance |-> level, auto_tags |-> {}]

\* a list as rank_news returns it: h High items, then m Medium, then l Low
CurateList(h, m, l) ==
    [k \in 1..(h + m + l) |->
        CurateItem(k, IF k <= h THEN High ELSE IF k <= h + m THEN Medium ELSE Low)]

InitCurate ==
    /\ PipeIdle
    /\ arg \in {CurateList(h, m, l) : h \in 0..MaxHigh, m \in 0..MaxFill, l \in 0..MaxFill}
    /\ ret = <<>>
    /\ ret2 = <<>>
    /\ called = "none"

\* process_news without a client: self._rule_based_process(scored)
CallRuleBased ==
    /\ called = "none"
    /\ ret' = _rule_based_process(arg)
    /\ ret2' = "no_client"
    /\ called' = "curate"
    /\ UNCHANGED arg
    /\ UNCHANGED pipeVars

\* process_news with a client: self._process_with_llm(scored[:50], category)
CallProcessWithLLM ==
    /\ called = "none"
    /\ \E answer \in LLMAnswers \ {"no_client"} :
         /\ ret' = _process_with_llm(Take(arg, 50), answer)
         /\ ret2' = answer
    /\ called' = "curate"
    /\ UNCHANGED arg
    /\ UNCHANGED pipeVars

NextCurate == CallRuleBased \/ CallProcessWithLLM

SpecCurate == InitCurate /\ [][NextCurate]_vars

TierRank(level) == IF level = High THEN 0 ELSE IF level = Medium THEN 1 ELSE 2

\* the curated item is the scored item, rewritten
TakenFrom(curated, given) ==
    /\ curated.title = given.title
    /\ curated.url = given.url
    /\ curated.source = given.source
    /\ curated.impact_score = given.impact_score
    /\ curated.importance = given.importance

\* C24: the curated list is bounded: with no client, with a failing call (rules)
\* and with a parsed answer it has at most MAX_NEWS_PER_CATEGORY items; when the
\* rules made it from n scored items it has at least min(MIN_NEWS_PER_CATEGORY, n)
\* items, every one of them taken from the input, no input item taken twice,
\* High items before Medium before Low.
C24_Bounded ==
    called = "curate" =>
        /\ Len(ret) <= MAX_NEWS_PER_CATEGORY
        /\ ret2 \in {"no_client", "error"} =>
              /\ Len(ret) >= (IF Len(arg) < MIN_NEWS_PER_CATEGORY THEN Len(arg)
                              ELSE MIN_NEWS_PER_CATEGORY)
              /\ \A i \in DOMAIN ret : \E k \in DOMAIN arg : TakenFrom(ret[i], arg[k])
              /\ \A k \in DOMAIN arg :
                    Cardinality({i \in DOMAIN ret : TakenFrom(ret[i], arg[k])}) <= 1
              /\ \A i, j \in DOMAIN ret :
                    i < j => TierRank(ret[i].importance) <= TierRank(ret[j].importance)

\* the rules were given more High items than MAX_NEWS_PER_CATEGORY and Medium
\* items besides, and returned MAX_NEWS_PER_CATEGORY items
C24_Witness ==
    /\ called = "curate"
    /\ ret2 = "no_client"
    /\ Len(WithImportance(arg, High)) > MAX_NEWS_PER_CATEGORY
    /\ WithImportance(arg, Medium) # <<>>
    /\ Len(ret) = MAX_NEWS_PER_CATEGORY

\* the sources whose completion the loop has processed
Processed == {s \in Sources : task[s] = "consumed"}

\* C25: statistics accounting: in the aggregation loop successful_sources counts
\* the processed sources that returned items and failed_sources the processed
\* sources that returned an empty list or raised, so their sum is the number of
\* processed sources; a step that processes a source adds one to exactly one
\* counter and no other step changes them; after the loop the sum is
\* total_sources.
C25_Accounting ==
    /\ [](pc = "loop" =>
            /\ stats.successful_sources =
                  Cardinality({s \in Processed : future[s].value # <<>>})
            /\ stats.failed_sources =
                  Cardinality({s \in Processed : future[s].raised \/ future[s].value = <<>>})
            /\ stats.successful_sources + stats.failed_sources = Cardinality(Processed))
    /\ [](pc \notin {"start", "loop"} =>
            stats.successful_sources + stats.failed_sources = stats.total_sources)
    /\ [][IF \E s \in Sources : task[s] = "done" /\ task'[s] = "consumed"
          THEN \/ /\ stats'.successful_sources = stats.successful_sources + 1
                  /\ stats'.failed_sources = stats.failed_sources
               \/ /\ stats'.successful_sources = stats.successful_sources
                  /\ stats'.failed_sources = stats.failed_sources + 1
          ELSE /\ stats'.successful_sources = stats.successful_sources
               /\ stats'.failed_sources = stats.failed_sources]_vars

\* collect_all returned after two sources delivered items and one source's feed
\* did not parse: two successes, one failure, three sources
C25_Witness ==
    /\ pc = "collected"
    /\ \E s \in Sources : net[s].kind = "bozo" /\ future[s].value = <<>>
    /\ stats.successful_sources = 2
    /\ stats.failed_sources = 1
    /\ stats.total_sources = Len(all_sources)

\* C26: for every input list the output of _deduplicate picks positions of the
\* input in input order (a subsequence); the normalized titles of the output are
\* all non-empty and differ from one another, and so do its non-empty URLs.
C26_DedupOutput ==
    called = "dedup" =>
        /\ \E K \in SUBSET (1..Len(arg)) : ret = Pick(arg, K)
        /\ \A i \in 1..Len(ret) : simple_title(ret[i]) # <<>>
        /\ \A i, j \in 1..Len(ret) :
              i # j =>
                 /\ simple_title(ret[i]) # simple_title(ret[j])
                 /\ (ret[i].url # "" => ret[i].url # ret[j].url)

\* the first item's title normalizes to nothing and the third repeats the
\* second's URL under another title: only the second item is returned
C26_Witness ==
    /\ called = "dedup"
    /\ Len(arg) = 3
    /\ arg[1].title # <<>> /\ simple_title(arg[1]) = <<>>
    /\ arg[2].url # "" /\ arg[3].url = arg[2].url
    /\ simple_title(arg[3]) \notin {<<>>, simple_title(arg[2])}
    /\ ret = <<arg[2]>>

=========================================================================
